---- MODULE Spec2Model ----
(***************************************************************************)
(* The three external stores of src/components/01-basic-components.tsx     *)
(* (createCounterStore, createOnlineStore, createWindowSizeStore), their   *)
(* listener Sets, the unsubscribe closures returned by subscribe, the      *)
(* window event handlers registered by the online and window-size stores,  *)
(* and the useSyncExternalStore bindings that consume them.                *)
(*                                                                         *)
(* The three stores are independent objects that share no state, so one    *)
(* behaviour follows one of them: Init draws the store under analysis      *)
(* (kind) and the actions of the other two stores are disabled.            *)
(*                                                                         *)
(* A JavaScript Set keeps insertion order, so a listener Set is a sequence *)
(* without duplicates.  Set.prototype.forEach iterates the live Set: an    *)
(* entry added during the iteration is visited, an entry deleted before    *)
(* its turn is not.  The iteration is modelled by a position in the        *)
(* sequence that moves back when an already visited entry is deleted.      *)
(*                                                                         *)
(* An update operation of the counter store (increment, decrement, reset)  *)
(* is one step: it assigns the value and runs every listener to the end.   *)
(* A window event is one step per registered handler, since window calls   *)
(* each handler as a callback of its own and the microtasks queued by then *)
(* run before the next handler: the clients' calls and the components'     *)
(* renders may come between two handlers of one event.                     *)
(* What the listeners do while they run is an input of the step.  A        *)
(* listener may return, throw, call an unsubscribe closure or subscribe a  *)
(* callback; listeners that call an update operation themselves are not    *)
(* modelled.  The stores are modelled in the browser (typeof window is not *)
(* "undefined"), where they are used.                                      *)
(*                                                                         *)
(* The examples that use no store follow, each with its own specification *)
(* over its own variables: the debounced search of UseEffectExample and    *)
(* useDebounce (SpecDebounce), ErrorBoundaryExample with its three         *)
(* ErrorBoundary instances, AsyncBuggyComponent and NetworkErrorComponent  *)
(* (SpecBoundary), UseReducerExample's reducers (SpecReducers), todo list  *)
(* (SpecTodo) and form (SpecForm), and the timer of RefsExample (SpecRefs).*)
(***************************************************************************)
EXTENDS Integers, Sequences, FiniteSets, TLC

\* ------------------------------------------------------------------ bounds
NumCallbacks == 3      \* distinct listener functions a client may pass
MaxSubs == 3           \* subscribe calls (unsubscribe closures) per behaviour
MaxOps == 2            \* update operations / browser events per behaviour
MaxReentrant == 1      \* listeners whose body throws or calls the store
MaxDim == 2            \* window.innerWidth / innerHeight range 1..MaxDim
NumComponents == 2     \* components mounted through a binding hook
TickMs == 100          \* milliseconds that pass in one step of the clock
MaxChanges == 3        \* changes of the search term per behaviour
MaxClicks == 4         \* clicks on ErrorBoundaryExample's buttons
MaxSteps == 3          \* dispatches to the reducers per behaviour
MaxClock == 2          \* milliseconds the clock of Date.now() advances
MaxStep == 2           \* SET_STEP payloads 1..MaxStep
MaxSubmits == 2        \* accepted submissions of the form per behaviour
MaxIntervals == 3      \* setInterval calls of RefsExample per behaviour
MaxCount == 3          \* the largest count RefsExample reaches

Callbacks == 1..NumCallbacks
Components == 1..NumComponents
StoreKinds == {"counter", "online", "window"}
Dims == 1..MaxDim

\* ----------------------------------------------------------- Set helpers
Range(s) == {s[i] : i \in DOMAIN s}

IndexOf(s, x) == IF x \in Range(s) THEN CHOOSE i \in DOMAIN s : s[i] = x ELSE 0

\* Set.prototype.add: appends unless the value is already an entry
SetAdd(s, x) == IF x \in Range(s) THEN s ELSE Append(s, x)

\* Set.prototype.delete: removes the entry equal to x, if any
SetDelete(s, x) == SelectSeq(s, LAMBDA y : y # x)

\* EventTarget.removeEventListener on one event type's listener list
RemoveListener(s, h) == SelectSeq(s, LAMBDA y : y # h)

\* What a listener does when the store invokes it: return ("plain"), throw,
\* call one of the nh unsubscribe closures returned so far, or subscribe the
\* callback number arg.
Behaviours(nh) ==
  {[t |-> "plain", arg |-> 0], [t |-> "throw", arg |-> 0]}
    \cup {[t |-> "unsub", arg |-> h] : h \in 1..nh}
    \cup {[t |-> "sub", arg |-> c] : c \in Callbacks}

VARIABLES
  kind,            \* which store this behaviour follows
  count,           \* createCounterStore: let count
  isOnline,        \* createOnlineStore: let isOnline
  size,            \* createWindowSizeStore: let size, as <<width, height>>
  sizeObj,         \* which object size refers to: the number of
                   \* { width, height } literals handleResize has evaluated
  navigatorOnLine, \* browser: navigator.onLine
  innerSize,       \* browser: <<window.innerWidth, window.innerHeight>>
  listeners,       \* the store's Set of listeners, in insertion order
  handles,         \* unsubscribe closures returned so far: [cb, called]
  winHandlers,     \* window's event listener list per event type (handle ids)
  ops,             \* update operations / events so far, in call order
  last,            \* the last operation and what it did
  pending,         \* the event dispatch in progress: queue the handlers
                   \* window has still to call, rec the record of the event
  comps            \* the components bound with useSyncExternalStore

storeVars == <<kind, count, isOnline, size, sizeObj, navigatorOnLine,
               innerSize, listeners, handles, winHandlers, ops, last,
               pending>>

\* UseEffectExample (Effect 6) and useDebounce: the debounced search
VARIABLES
  searchTerm,      \* useState: searchTerm
  debouncedSearch, \* useState: debouncedSearch
  timers,          \* the browser's timers, by id: [val, left, status]
  effectTimer,     \* const timer of the effect's last run (a timer id)
  idle,            \* ms since searchTerm last changed, counted up to Delay
  changes,         \* changes of searchTerm so far
  lastFire         \* the last timer callback that ran and when it ran

debounceVars == <<searchTerm, debouncedSearch, timers, effectTimer, idle,
                  changes, lastFire>>

\* ErrorBoundaryExample: three ErrorBoundary instances ("default" around
\* BuggyComponent 1, "custom" with a fallback prop around BuggyComponent 2,
\* "async" around AsyncBuggyComponent) and NetworkErrorComponent
VARIABLES
  throwError1,       \* useState: throwError1
  throwError2,       \* useState: throwError2
  networkShouldFail, \* useState: networkShouldFail
  errorLog,          \* useState: errorLog, the messages logged
  boundary,          \* this.state of each ErrorBoundary: [hasError, error]
  asyncError,        \* AsyncBuggyComponent: useState asyncError
  asyncInst,         \* which mount of AsyncBuggyComponent is the current one
  bTimers,           \* the timers set by the two components
  netData,           \* NetworkErrorComponent: useState data
  netLoading,        \* NetworkErrorComponent: useState loading
  netError,          \* NetworkErrorComponent: useState error
  netLast,           \* how the most recent fetchData call stands
  clicks             \* clicks on the example's buttons so far

boundaryVars == <<throwError1, throwError2, networkShouldFail, errorLog,
                  boundary, asyncError, asyncInst, bTimers, netData,
                  netLoading, netError, netLast, clicks>>

\* UseReducerExample: the three useReducer states and the todo list's inputs
VARIABLES
  counterState,    \* useReducer(counterReducer, ...): [count, step]
  todoState,       \* useReducer(todoReducer, ...): [todos, filter]
  formState,       \* useReducer(formReducer, ...)
  newTodo,         \* useState: newTodo
  editingTodo,     \* useState: editingTodo, 0 for null
  editText,        \* useState: editText
  nowMs,           \* the clock Date.now() reads
  rerun,           \* the last dispatched action applied once more
  steps            \* dispatches so far

reducerVars == <<counterState, todoState, formState, newTodo, editingTodo,
                 editText, nowMs, rerun, steps>>

\* UseReducerExample's form: the timers set by handleFormSubmit
VARIABLES formTimers

formVars == <<formTimers>>

\* RefsExample: the interval timer kept in timerRef
VARIABLES
  refsMounted,     \* whether RefsExample is mounted
  timerRef,        \* timerRef.current: an interval id, 0 for null
  intervals,       \* the browser's intervals, by id: [active, left]
  refsCount,       \* useState: count, the updates not yet rendered included
  refsShown        \* the count of the latest render, which the handlers of
                   \* the page close over

refsVars == <<refsMounted, timerRef, intervals, refsCount, refsShown>>

\* the state of the components other than the store bindings
uiVars == <<debounceVars, boundaryVars, reducerVars, formVars, refsVars>>

\* what the steps of one example leave alone
notDebounce == <<kind, count, isOnline, size, sizeObj, navigatorOnLine,
                 innerSize,
                 listeners, handles, winHandlers, ops, last, pending, comps,
                 boundaryVars, reducerVars, formVars, refsVars>>
notBoundary == <<kind, count, isOnline, size, sizeObj, navigatorOnLine,
                 innerSize,
                 listeners, handles, winHandlers, ops, last, pending, comps,
                 debounceVars, reducerVars, formVars, refsVars>>
notReducers == <<kind, count, isOnline, size, sizeObj, navigatorOnLine,
                 innerSize,
                 listeners, handles, winHandlers, ops, last, pending, comps,
                 debounceVars, boundaryVars, formVars, refsVars>>
notForm == <<kind, count, isOnline, size, sizeObj, navigatorOnLine,
             innerSize,
             listeners, handles, winHandlers, ops, last, pending, comps,
             debounceVars, boundaryVars, counterState, todoState, newTodo,
             editingTodo, editText, nowMs, rerun, steps, refsVars>>
notRefs == <<kind, count, isOnline, size, sizeObj, navigatorOnLine,
             innerSize,
             listeners, handles, winHandlers, ops, last, pending, comps,
             debounceVars, boundaryVars, reducerVars, formVars>>

vars == <<kind, count, isOnline, size, sizeObj, navigatorOnLine,
          innerSize, listeners, handles, winHandlers, ops, last, pending, comps,
          uiVars>>

\* listeners that all just return
Plain == [c \in Callbacks |-> [t |-> "plain", arg |-> 0]]

\* The bodies of the listener functions during one update operation, given
\* the set reg of registered callbacks and the number nh of closures: at most
\* k of them, all registered, do more than return.
RECURSIVE Reentrant(_, _, _)
Reentrant(reg, nh, k) ==
  IF k = 0 THEN {Plain}
  ELSE {Plain} \cup {[b EXCEPT ![c] = x] :
                       b \in Reentrant(reg, nh, k - 1), c \in reg,
                       x \in Behaviours(nh)}

\* the bodies the listeners may have when an update operation starts now
PassBehaviours == Reentrant(Range(listeners), Len(handles), MaxReentrant)

\* the event types a store of this kind registers handlers for
EventTypes(k) ==
  CASE k = "online" -> {"online", "offline"}
    [] k = "window" -> {"resize"}
    [] OTHER -> {}

AllEventTypes == {"online", "offline", "resize"}

\* ------------------------------------------------- the store's operations
\* A store while an operation runs: ls the listener Set, hs the unsubscribe
\* closures, wh the window's handler lists, pos the number of entries the
\* running forEach has visited, trace the listeners it has invoked, seen
\* the value getSnapshot() returned to each of them when it was invoked, threw
\* whether a listener threw out of it, passes the finished forEach passes,
\* val the value getSnapshot() returns, obj which object that value is (0 for
\* the number and the boolean of the other two stores), beh the bodies of the
\* listeners, queue the handlers the event dispatch in progress has still to
\* call.

\* getSnapshot(): the value the store of this kind holds
getSnapshot ==
  CASE kind = "counter" -> count
    [] kind = "online" -> isOnline
    [] OTHER -> size

StoreNow(b) ==
  [beh |-> b, val |-> getSnapshot, obj |-> sizeObj, ls |-> listeners,
   hs |-> handles,
   wh |-> winHandlers, pos |-> 0, trace |-> <<>>, seen |-> <<>>,
   start |-> listeners, threw |-> FALSE, passes |-> <<>>,
   queue |-> pending.queue]

\* subscribe without listeners.add(listener)
subscribeForgets(st, c) ==
  LET h == Len(st.hs) + 1 IN
  [st EXCEPT
     !.hs = Append(@, [cb |-> c, called |-> FALSE]),
     !.wh = [e \in AllEventTypes |->
               IF e \in EventTypes(kind) THEN Append(@[e], h) ELSE @[e]]]

\* subscribe that also starts the counter again from 0
subscribeResets(st, c) ==
  LET h == Len(st.hs) + 1 IN
  [st EXCEPT
     !.val = IF kind = "counter" THEN 0 ELSE @,
     !.ls = SetAdd(@, c),
     !.hs = Append(@, [cb |-> c, called |-> FALSE]),
     !.wh = [e \in AllEventTypes |->
               IF e \in EventTypes(kind) THEN Append(@[e], h) ELSE @[e]]]

\* subscribe(listener): listeners.add(listener); the online and window-size
\* stores also create their handlers and addEventListener them; the returned
\* closure is the next entry of hs.
subscribe(st, c) ==
  LET h == Len(st.hs) + 1 IN
  [st EXCEPT
     !.ls = SetAdd(@, c),
     !.hs = Append(@, [cb |-> c, called |-> FALSE]),
     !.wh = [e \in AllEventTypes |->
               IF e \in EventTypes(kind) THEN Append(@[e], h) ELSE @[e]]]

\* the closure without listeners.delete(listener)
unsubscribeKeepsListener(st, h) ==
  [st EXCEPT
     !.hs = [@ EXCEPT ![h].called = TRUE],
     !.wh = [e \in AllEventTypes |->
               IF e \in EventTypes(kind) THEN RemoveListener(@[e], h)
               ELSE @[e]],
     !.queue = RemoveListener(@, h)]

\* the closure without the removeEventListener calls
unsubscribeKeepsHandlers(st, h) ==
  LET c == st.hs[h].cb
      i == IndexOf(st.ls, c)
  IN [st EXCEPT
        !.ls = SetDelete(@, c),
        !.pos = IF i # 0 /\ i <= @ THEN @ - 1 ELSE @,
        !.hs = [@ EXCEPT ![h].called = TRUE]]

\* the closure returned by subscribe: listeners.delete(listener) and, for the
\* online and window-size stores, removeEventListener of its own handlers:
\* a dispatch in progress no longer calls a handler removed before its turn.
\* Deleting an entry the running forEach has passed moves the position back.
unsubscribe(st, h) ==
  LET c == st.hs[h].cb
      i == IndexOf(st.ls, c)
  IN [st EXCEPT
        !.ls = SetDelete(@, c),
        !.pos = IF i # 0 /\ i <= @ THEN @ - 1 ELSE @,
        !.hs = [@ EXCEPT ![h].called = TRUE],
        !.wh = [e \in AllEventTypes |->
                  IF e \in EventTypes(kind) THEN RemoveListener(@[e], h)
                  ELSE @[e]],
        !.queue = RemoveListener(@, h)]

\* the body of listener c, run by the store
RunListener(st, c) ==
  LET b == st.beh[c] IN
  CASE b.t = "throw" -> [st EXCEPT !.threw = TRUE]
    [] b.t = "unsub" -> unsubscribe(st, b.arg)
    [] b.t = "sub" -> subscribe(st, b.arg)
    [] OTHER -> st

\* listeners.forEach((listener) => listener()): visits the live Set in
\* insertion order; an exception thrown by a listener ends the iteration.
RECURSIVE forEach(_)
forEach(st) ==
  IF st.threw \/ st.pos >= Len(st.ls) THEN st
  ELSE LET c == st.ls[st.pos + 1]
           st1 == [st EXCEPT !.pos = @ + 1, !.trace = Append(@, c),
                             !.seen = Append(@, st.val)]
       IN forEach(RunListener(st1, c))

\* a pass that invokes the first listener of the Set only
notifyFirstOnly(st) ==
  LET s0 == [st EXCEPT !.pos = 0, !.trace = <<>>, !.seen = <<>>,
                       !.start = st.ls, !.threw = FALSE]
      r == IF s0.ls = <<>> THEN s0
           ELSE RunListener([s0 EXCEPT !.pos = 1, !.trace = <<s0.ls[1]>>,
                                       !.seen = <<s0.val>>],
                            s0.ls[1])
  IN [r EXCEPT !.passes = Append(@, [val |-> r.val, obj |-> r.obj,
                                     start |-> r.start,
                                     trace |-> r.trace, seen |-> r.seen,
                                     threw |-> r.threw])]

\* one complete forEach pass, recorded in passes
notifyListeners(st) ==
  LET r == forEach([st EXCEPT !.pos = 0, !.trace = <<>>, !.seen = <<>>,
                              !.start = st.ls, !.threw = FALSE])
  IN [r EXCEPT !.passes = Append(@, [val |-> r.val, obj |-> r.obj,
                                     start |-> r.start,
                                     trace |-> r.trace, seen |-> r.seen,
                                     threw |-> r.threw])]

\* increment without notifyListeners()
incrementSilent(st) == [st EXCEPT !.val = @ + 1]

\* createCounterStore: increment, decrement, reset
increment(st) == notifyListeners([st EXCEPT !.val = @ + 1])

\* decrement that calls notifyListeners() before count--
decrementNotifiesFirst(st) == [notifyListeners(st) EXCEPT !.val = @ - 1]

decrement(st) == notifyListeners([st EXCEPT !.val = @ - 1])

\* reset without count = 0
resetKeepsCount(st) == notifyListeners(st)

\* reset that returns early when count is already 0
resetIfChanged(st) ==
  IF st.val = 0 THEN st ELSE notifyListeners([st EXCEPT !.val = 0])

reset(st) == notifyListeners([st EXCEPT !.val = 0])

\* createOnlineStore: the handlers each subscribe call creates
handleOnline(st) == notifyListeners([st EXCEPT !.val = TRUE])

handleOffline(st) == notifyListeners([st EXCEPT !.val = FALSE])

\* createWindowSizeStore: the handler each subscribe call creates; sz is
\* <<window.innerWidth, window.innerHeight>> when it runs.  The object
\* literal it assigns to size is a new object every time.
handleResize(st, sz) ==
  notifyListeners([st EXCEPT !.val = sz, !.obj = @ + 1])

handler(st, e, sz) ==
  CASE e = "online" -> handleOnline(st)
    [] e = "offline" -> handleOffline(st)
    [] OTHER -> handleResize(st, sz)

\* window dispatches event e: the handlers registered when the dispatch
\* starts are called in registration order, each as a callback of its own
\* (the microtasks queued meanwhile run before the next one is called); one
\* removed before its turn is skipped, one added meanwhile is not called; an
\* exception leaving a handler is reported and the dispatch goes on.

\* the dispatch in progress calls its next handler
dispatch(st, e, sz) ==
  IF st.queue = <<>> THEN st
  ELSE handler([st EXCEPT !.queue = Tail(@)], e, sz)

\* the dispatch starts: it calls the first handler, if there is one
dispatchEvent(st, e, sz) == dispatch([st EXCEPT !.queue = st.wh[e]], e, sz)

\* ------------------------------------------------- the debounced search
\* UseEffectExample's Effect 6 and useDebounce(value, 500) are the same
\* effect: on every change of the term its cleanup clears the timer of the
\* previous run and it sets a new timer that publishes the term it was run
\* with.  Time is counted in steps of TickMs; a timer whose time has run out
\* fires at some later moment, as the browser's task queue allows.
Delay == 500

\* the strings the user can type into the search box
Terms == {"", "a", "ab"}

PendingTimers(ts) == {id \in DOMAIN ts : ts[id].status = "pending"}

\* setTimeout(() => setDebouncedSearch(v), ms): the new timer's id is its
\* index in the table
setTimeout(ts, v, ms) ==
  Append(ts, [val |-> v, left |-> ms, status |-> "pending"])

\* clearTimeout(id): no effect on a timer that fired or was cleared
clearTimeout(ts, id) ==
  IF id \in DOMAIN ts /\ ts[id].status = "pending"
  THEN [ts EXCEPT ![id] = [val |-> @.val, left |-> 0, status |-> "cleared"]]
  ELSE ts

\* the effect with no cleanup function
runEffectNoCleanup(ts, prev, v) == setTimeout(ts, v, Delay)

\* the effect re-runs because searchTerm changed to v: the cleanup of the
\* previous run, clearTimeout(timer), then setTimeout(..., 500)
runEffect(ts, prev, v) == setTimeout(clearTimeout(ts, prev), v, Delay)

\* TickMs pass
elapse(ts) ==
  [id \in DOMAIN ts |->
     IF ts[id].status = "pending"
     THEN [ts[id] EXCEPT !.left = IF @ > TickMs THEN @ - TickMs ELSE 0]
     ELSE ts[id]]

\* the component has mounted with searchTerm "" and its effect has run once
InitDebounce ==
  /\ searchTerm = ""
  /\ debouncedSearch = ""
  /\ timers = setTimeout(<<>>, "", Delay)
  /\ effectTimer = 1
  /\ idle = 0
  /\ changes = 0
  /\ lastFire = [id |-> 0, val |-> "", term |-> "", idle |-> 0]

\* ------------------------------------------------ ErrorBoundaryExample
AsyncDelay == 1000
FetchDelay == 1000

Boundaries == {"default", "custom", "async"}

AsyncMsg == "This is an async error!"
NetMsg == "Network request failed!"
Loaded == "Data loaded successfully!"

\* A render of a child of ErrorBoundary b throws an Error with message msg:
\* getDerivedStateFromError sets hasError, componentDidCatch stores the error
\* and calls props.onError, which is handleError for all three boundaries and
\* appends to errorLog (the entry is the time of day and the message; the
\* time is left out).  ui is [bd, log]: the boundaries and the log.
caught(ui, b, msg) ==
  [ui EXCEPT !.bd[b] = [hasError |-> TRUE, error |-> msg],
             !.log = Append(@, msg)]

\* ErrorBoundary.handleReset
handleReset(ui, b) ==
  [ui EXCEPT !.bd[b] = [hasError |-> FALSE, error |-> "null"]]

\* ErrorBoundary b renders its children while not in the error state:
\* BuggyComponent throws when its shouldThrow prop is set
renderBuggy(ui, b, shouldThrow) ==
  IF ~ui.bd[b].hasError /\ shouldThrow
  THEN caught(ui, b, "This is a simulated error!")
  ELSE ui

\* NetworkErrorComponent.fetchData up to its first await, as [data, loading,
\* error, last]: with shouldFail the throw is caught inside fetchData and the
\* finally block runs before the call returns
fetchDataNoFinally(n, shouldFail) ==
  IF shouldFail
  THEN [n EXCEPT !.loading = TRUE, !.error = NetMsg, !.last = "failed"]
  ELSE [n EXCEPT !.loading = TRUE, !.error = "null", !.last = "started"]

fetchData(n, shouldFail) ==
  IF shouldFail
  THEN [n EXCEPT !.loading = FALSE, !.error = NetMsg, !.last = "failed"]
  ELSE [n EXCEPT !.loading = TRUE, !.error = "null", !.last = "started"]

\* fetchData after its await: setData, then the finally block
fetchDataResumes(n) ==
  [n EXCEPT !.data = Loaded, !.loading = FALSE, !.last = "resolved"]

\* NetworkErrorComponent renders a button that calls fetchData: Retry when
\* error is set, Fetch Data when it is neither loading nor loaded
FetchButtonShown ==
  netError # "null" \/ (~netLoading /\ netData = "null")

InitBoundary ==
  /\ throwError1 = FALSE
  /\ throwError2 = FALSE
  /\ networkShouldFail = FALSE
  /\ errorLog = <<>>
  /\ boundary = [b \in Boundaries |-> [hasError |-> FALSE, error |-> "null"]]
  /\ asyncError = FALSE
  /\ asyncInst = 1
  /\ bTimers = <<>>
  /\ netData = "null"
  /\ netLoading = FALSE
  /\ netError = "null"
  /\ netLast = "none"
  /\ clicks = 0

\* ---------------------------------------------------- UseReducerExample
\* Date.now() when the page is opened; the ids of the initial todos are 1, 2
ClockStart == 10

Filters == {"all", "active", "completed"}
Texts == {"a", "b"}
Fields == {"name", "email", "message"}

\* what can be typed into the two text inputs of the todo list, and
\* String.prototype.trim on it
TodoInputs == {"", " ", "a", " b"}

trim(str) ==
  CASE str = " " -> ""
    [] str = " b" -> "b"
    [] OTHER -> str

CounterActions ==
  {[type |-> t] : t \in {"INCREMENT", "DECREMENT", "RESET",
                         "INCREMENT_BY_STEP"}}
    \cup {[type |-> "SET_STEP", payload |-> n] : n \in 1..MaxStep}

counterReducer(state, action) ==
  CASE action.type = "INCREMENT" -> [state EXCEPT !.count = @ + 1]
    [] action.type = "DECREMENT" -> [state EXCEPT !.count = @ - 1]
    [] action.type = "RESET" -> [state EXCEPT !.count = 0]
    [] action.type = "SET_STEP" -> [state EXCEPT !.step = action.payload]
    [] action.type = "INCREMENT_BY_STEP" ->
         [state EXCEPT !.count = @ + state.step]
    [] OTHER -> state

\* the ids a todo can have: those of the initial todos and Date.now()
TodoIds == {1, 2} \cup (ClockStart..(ClockStart + MaxClock + 1))

\* the actions that can be dispatched to todoReducer
TodoActions ==
  LET ids == TodoIds IN
  {[type |-> "ADD_TODO", payload |-> x] : x \in Texts}
    \cup {[type |-> t, payload |-> id] :
            t \in {"TOGGLE_TODO", "DELETE_TODO"}, id \in ids}
    \cup {[type |-> "SET_FILTER", payload |-> f] : f \in Filters}
    \cup {[type |-> "CLEAR_COMPLETED"]}
    \cup {[type |-> "EDIT_TODO", payload |-> [id |-> id, text |-> x]] :
            id \in ids, x \in Texts}

\* todoReducer, run while Date.now() returns now
todoReducer(state, action, now) ==
  CASE action.type = "ADD_TODO" ->
         [state EXCEPT !.todos =
            Append(@, [id |-> now, text |-> action.payload,
                       completed |-> FALSE])]
    [] action.type = "TOGGLE_TODO" ->
         [state EXCEPT !.todos =
            [i \in DOMAIN @ |->
               IF @[i].id = action.payload
               THEN [@[i] EXCEPT !.completed = ~@]
               ELSE @[i]]]
    [] action.type = "DELETE_TODO" ->
         [state EXCEPT !.todos =
            SelectSeq(@, LAMBDA todo : todo.id # action.payload)]
    [] action.type = "SET_FILTER" -> [state EXCEPT !.filter = action.payload]
    [] action.type = "CLEAR_COMPLETED" ->
         [state EXCEPT !.todos = SelectSeq(@, LAMBDA todo : ~todo.completed)]
    [] action.type = "EDIT_TODO" ->
         [state EXCEPT !.todos =
            [i \in DOMAIN @ |->
               IF @[i].id = action.payload.id
               THEN [@[i] EXCEPT !.text = action.payload.text]
               ELSE @[i]]]
    [] OTHER -> state

FormActions ==
  {[type |-> "SET_FIELD", field |-> f, value |-> v] :
     f \in Fields, v \in {"", "x"}}
    \cup {[type |-> "SET_ERROR", field |-> f, error |-> e] :
            f \in Fields,
            e \in {"Name is required", "Email is invalid"}}
    \cup {[type |-> "CLEAR_ERROR", field |-> f] : f \in Fields}
    \cup {[type |-> "SET_SUBMITTING", value |-> v] : v \in BOOLEAN}
    \cup {[type |-> "SUBMIT_SUCCESS"], [type |-> "RESET_FORM"]}

\* the form before anything is entered; errors maps a field without an
\* error to "undefined"
EmptyForm ==
  [name |-> "", email |-> "", message |-> "",
   errors |-> [f \in Fields |-> "undefined"],
   isSubmitting |-> FALSE, isSubmitted |-> FALSE]

formReducer(state, action) ==
  CASE action.type = "SET_FIELD" ->
         [state EXCEPT ![action.field] = action.value]
    [] action.type = "SET_ERROR" ->
         [state EXCEPT !.errors[action.field] = action.error]
    [] action.type = "CLEAR_ERROR" ->
         [state EXCEPT !.errors[action.field] = "undefined"]
    [] action.type = "SET_SUBMITTING" ->
         [state EXCEPT !.isSubmitting = action.value]
    [] action.type = "SUBMIT_SUCCESS" ->
         [state EXCEPT !.isSubmitting = FALSE, !.isSubmitted = TRUE]
    [] action.type = "RESET_FORM" -> EmptyForm
    [] OTHER -> state

\* the form of UseReducerExample
SubmitDelay == 2000

\* what can be typed into the field f of the form
FormInputs(f) ==
  IF f = "email" THEN {"", "x", "a@b", "a@b.c"} ELSE {"", " ", "x"}

\* /\S+@\S+\.\S+/.test(str) on the strings that can be typed
emailPattern(str) == str = "a@b.c"

\* <input type="email">: whether the browser finds the value str of the input
\* not to be an e-mail address (the empty value is none it objects to), on
\* the strings that can be typed; the form, which has no noValidate, is not
\* submitted then
typeMismatch(str) == str = "x"

\* validateForm on the rendered state: the state after its SET_ERROR
\* dispatches and the value it returns
validateForm(state) ==
  LET s1 == IF trim(state.name) = ""
            THEN formReducer(state, [type |-> "SET_ERROR", field |-> "name",
                                     error |-> "Name is required"])
            ELSE state
      s2 == IF trim(state.email) = ""
            THEN formReducer(s1, [type |-> "SET_ERROR", field |-> "email",
                                  error |-> "Email is required"])
            ELSE IF ~emailPattern(state.email)
            THEN formReducer(s1, [type |-> "SET_ERROR", field |-> "email",
                                  error |-> "Email is invalid"])
            ELSE s1
      s3 == IF trim(state.message) = ""
            THEN formReducer(s2, [type |-> "SET_ERROR", field |-> "message",
                                  error |-> "Message is required"])
            ELSE s2
  IN [state |-> s3,
      isValid |-> /\ trim(state.name) # ""
                  /\ trim(state.email) # "" /\ emailPattern(state.email)
                  /\ trim(state.message) # ""]

\* handleFormSubmit: the state after its dispatches and whether it set the
\* timer
handleFormSubmit(state) ==
  LET r == validateForm(state) IN
  IF r.isValid
  THEN [state |-> formReducer(r.state, [type |-> "SET_SUBMITTING",
                                        value |-> TRUE]),
        timer |-> TRUE]
  ELSE [state |-> r.state, timer |-> FALSE]

\* onChange of the input of field f
onChange(state, f, v) ==
  LET s1 == formReducer(state, [type |-> "SET_FIELD", field |-> f,
                                value |-> v])
  IN IF state.errors[f] # "undefined"
     THEN formReducer(s1, [type |-> "CLEAR_ERROR", field |-> f])
     ELSE s1

\* filteredTodos: the indices of the todos the list renders
filteredTodos ==
  {i \in DOMAIN todoState.todos :
     CASE todoState.filter = "active" -> ~todoState.todos[i].completed
       [] todoState.filter = "completed" -> todoState.todos[i].completed
       [] OTHER -> TRUE}

\* the rendered rows that show the edit box with Save and Cancel
EditingRows == {i \in filteredTodos : todoState.todos[i].id = editingTodo}

InitReducers ==
  /\ counterState = [count |-> 0, step |-> 1]
  /\ todoState =
       [todos |-> <<[id |-> 1, text |-> "Learn useReducer",
                     completed |-> FALSE],
                    [id |-> 2, text |-> "Build todo app",
                     completed |-> TRUE]>>,
        filter |-> "all"]
  /\ formState = EmptyForm
  /\ newTodo = ""
  /\ editingTodo = 0
  /\ editText = ""
  /\ nowMs = ClockStart
  /\ rerun = [reducer |-> "none", state |-> 0]
  /\ steps = 0

\* ---------------------------------------------------------- RefsExample
\* r is [ref, ivs]: timerRef.current and the browser's intervals; left is
\* the time until the interval's callback is due
IntervalMs == 1000

ActiveIntervals(ivs) == {id \in DOMAIN ivs : ivs[id].active}

\* setInterval(callback, ms): the new interval's id is its index
setInterval(ivs, ms) == Append(ivs, [active |-> TRUE, left |-> ms])

\* clearInterval(id)
clearInterval(ivs, id) ==
  IF id \in DOMAIN ivs
  THEN [ivs EXCEPT ![id] = [active |-> FALSE, left |-> 0]]
  ELSE ivs

\* startTimer without if (timerRef.current) return
startTimerAlways(r) ==
  [ref |-> Len(r.ivs) + 1, ivs |-> setInterval(r.ivs, IntervalMs)]

\* startTimer: setInterval returns the id of the new interval
startTimer(r) ==
  IF r.ref # 0 THEN r
  ELSE [ref |-> Len(r.ivs) + 1, ivs |-> setInterval(r.ivs, IntervalMs)]

\* stopTimer
stopTimer(r) ==
  IF r.ref # 0 THEN [ref |-> 0, ivs |-> clearInterval(r.ivs, r.ref)] ELSE r

\* the cleanup of the effect, run on unmount
cleanupTimer(r) ==
  IF r.ref # 0 THEN [r EXCEPT !.ivs = clearInterval(r.ivs, r.ref)] ELSE r

InitRefs ==
  /\ refsMounted = TRUE
  /\ timerRef = 0
  /\ intervals = <<>>
  /\ refsCount = 0
  /\ refsShown = 0

\* ---------------------------------------------------------------- actions
\* the record kept of the last operation: op its name, h the closure it
\* created or called, repeat whether that closure had been called before;
\* before, hs, wh and prev the listener Set, the closures, the window's
\* handler lists and the value when it started; beh the
\* bodies of the listeners, passes its forEach passes, threw whether the call
\* ended by an exception (an exception in a window event handler is reported
\* by the browser and does not reach the code that fired the event).
LastOf(op, h, repeat, st) ==
  [op |-> op, h |-> h, repeat |-> repeat, before |-> listeners,
   hs |-> handles,
   wh |-> winHandlers, prev |-> getSnapshot, beh |-> st.beh,
   passes |-> st.passes, threw |-> (kind = "counter" /\ st.threw)]

\* the dispatch that is left in progress when q is the queue of handlers
\* still to call and rec the record of the event; none when q is empty
PendingOf(q, rec) ==
  IF q = <<>>
  THEN [queue |-> <<>>, rec |-> [op |-> "none", beh |-> Plain]]
  ELSE [queue |-> q, rec |-> rec]

\* the store after the operation
Commit(st) ==
  /\ listeners' = st.ls
  /\ handles' = st.hs
  /\ winHandlers' = st.wh
  /\ count' = IF kind = "counter" THEN st.val ELSE count
  /\ isOnline' = IF kind = "online" THEN st.val ELSE isOnline
  /\ size' = IF kind = "window" THEN st.val ELSE size
  /\ sizeObj' = st.obj

\* a component that is not mounted
Unmounted ==
  [phase |-> "unmounted", shown |-> 0, obj |-> 0, dirty |-> FALSE, h |-> 0,
   raced |-> FALSE]

UpdateNames == {"increment", "decrement", "reset"}
EventNames == {"online", "offline", "resize"}

Init ==
  /\ kind \in StoreKinds
  /\ count = 0
  /\ navigatorOnLine \in IF kind = "online" THEN BOOLEAN ELSE {TRUE}
  /\ isOnline = navigatorOnLine
  /\ innerSize = <<1, 1>>
  /\ size = innerSize
  /\ sizeObj = 0
  /\ listeners = <<>>
  /\ handles = <<>>
  /\ winHandlers = [e \in AllEventTypes |-> <<>>]
  /\ ops = <<>>
  /\ last = [op |-> "create", h |-> 0, repeat |-> FALSE, before |-> <<>>,
             hs |-> <<>>, wh |-> winHandlers, prev |-> getSnapshot,
             beh |-> Plain, passes |-> <<>>, threw |-> FALSE]
  /\ pending = PendingOf(<<>>, last)
  /\ comps = [i \in Components |-> Unmounted]
  /\ InitDebounce
  /\ InitBoundary
  /\ InitReducers
  /\ formTimers = <<>>
  /\ InitRefs

\* store.subscribe(c) is called
CallSubscribe(c) ==
  /\ Len(handles) < MaxSubs
  /\ LET st == subscribe(StoreNow(Plain), c) IN
       /\ Commit(st)
       /\ last' = LastOf("subscribe", Len(handles) + 1, FALSE, st)
       /\ pending' = PendingOf(st.queue, pending.rec)
  /\ UNCHANGED <<kind, navigatorOnLine, innerSize, ops>>

\* the closure that the h-th subscribe call returned is called
CallUnsubscribe(h) ==
  /\ h \in 1..Len(handles)
  /\ LET st == unsubscribe(StoreNow(Plain), h) IN
       /\ Commit(st)
       /\ last' = LastOf("unsubscribe", h, handles[h].called, st)
       /\ pending' = PendingOf(st.queue, pending.rec)
  /\ UNCHANGED <<kind, navigatorOnLine, innerSize, ops>>

\* a client calls store.subscribe(c)
Subscribe(c) == CallSubscribe(c) /\ UNCHANGED <<comps, uiVars>>

\* a client calls the closure that the h-th subscribe call returned
Unsubscribe(h) == CallUnsubscribe(h) /\ UNCHANGED <<comps, uiVars>>

\* getSnapshot() { return count } (isOnline, size) and the getter
\* get count() { return count }: the store after the call; the value the
\* call returns is its val
read(st) == st

\* store.getSnapshot() is called
CallGetSnapshot ==
  /\ LET st == read(StoreNow(Plain)) IN
       /\ Commit(st)
       /\ last' = LastOf("getSnapshot", 0, FALSE, st)
  /\ UNCHANGED <<kind, navigatorOnLine, innerSize, ops, pending, comps,
                 uiVars>>

\* counterStore.count is read
GetCount ==
  /\ kind = "counter"
  /\ LET st == read(StoreNow(Plain)) IN
       /\ Commit(st)
       /\ last' = LastOf("count", 0, FALSE, st)
  /\ UNCHANGED <<kind, navigatorOnLine, innerSize, ops, pending, comps,
                 uiVars>>

\* counterStore.increment() / decrement() / reset() is called
CounterUpdate(op, st) ==
  /\ kind = "counter"
  /\ Len(ops) < MaxOps
  /\ Len(st.hs) <= MaxSubs
  /\ Commit(st)
  /\ ops' = Append(ops, op)
  /\ last' = LastOf(op, 0, FALSE, st)
  /\ UNCHANGED <<kind, navigatorOnLine, innerSize, pending>>

\* a client calls counterStore.increment() / decrement() / reset()
Increment ==
  /\ \E b \in PassBehaviours :
       CounterUpdate("increment", increment(StoreNow(b)))
  /\ UNCHANGED <<comps, uiVars>>

Decrement ==
  /\ \E b \in PassBehaviours :
       CounterUpdate("decrement", decrement(StoreNow(b)))
  /\ UNCHANGED <<comps, uiVars>>

Reset ==
  /\ \E b \in PassBehaviours :
       CounterUpdate("reset", reset(StoreNow(b)))
  /\ UNCHANGED <<comps, uiVars>>

\* window fires online or offline, once the dispatch of the event before
\* is over
FireOnline(e, st) ==
  /\ kind = "online"
  /\ pending.queue = <<>>
  /\ Len(ops) < MaxOps
  /\ Len(st.hs) <= MaxSubs
  /\ Commit(st)
  /\ last' = LastOf(e, 0, FALSE, st)
  /\ pending' = PendingOf(st.queue, last')
  /\ navigatorOnLine' = (e = "online")
  /\ ops' = Append(ops, e)
  /\ UNCHANGED <<kind, innerSize>>

\* window fires resize at the size sz
FireResize(sz, st) ==
  /\ kind = "window"
  /\ pending.queue = <<>>
  /\ Len(ops) < MaxOps
  /\ Len(st.hs) <= MaxSubs
  /\ Commit(st)
  /\ last' = LastOf("resize", 0, FALSE, st)
  /\ pending' = PendingOf(st.queue, last')
  /\ innerSize' = sz
  /\ ops' = Append(ops, "resize")
  /\ UNCHANGED <<kind, navigatorOnLine>>

\* the browser goes online or offline and fires the event on window
OnlineEvent(e) ==
  /\ \E b \in PassBehaviours :
       FireOnline(e, dispatchEvent(StoreNow(b), e, innerSize))
  /\ UNCHANGED <<comps, uiVars>>

\* the browser window is resized to w x h and fires resize on window
ResizeEvent(w, h) ==
  /\ \E b \in PassBehaviours :
       FireResize(<<w, h>>, dispatchEvent(StoreNow(b), "resize", <<w, h>>))
  /\ UNCHANGED <<comps, uiVars>>

\* Object.is of the snapshot a component holds and the snapshot s (a store
\* or a pass, with val and obj): the same value for the number and the
\* boolean, the same object for the window size
ObjectIs(c, s) == c.shown = s.val /\ c.obj = s.obj

\* the components after the store ran an update: the listener of a subscribed
\* component, when invoked, re-reads the snapshot and schedules a re-render
\* unless it is (Object.is) the snapshot shown
Notified(st) ==
  [i \in Components |->
     LET c == comps[i]
         changed == \E p \in DOMAIN st.passes :
                      /\ i \in Range(st.passes[p].trace)
                      /\ ~ObjectIs(c, st.passes[p])
     IN IF c.phase = "subscribed" /\ changed
        THEN [c EXCEPT !.dirty = TRUE]
        ELSE IF c.phase = "rendered" /\ ~ObjectIs(c, st)
        THEN [c EXCEPT !.raced = TRUE]
        ELSE c]

\* window calls the next handler of the dispatch in progress; the record of
\* the event gets the pass this handler runs, and the listeners of bound
\* components are notified
HandlerRuns ==
  LET st == dispatch(StoreNow(pending.rec.beh), pending.rec.op, innerSize) IN
  /\ pending.queue # <<>>
  /\ Len(st.hs) <= MaxSubs
  /\ Commit(st)
  /\ last' = [pending.rec EXCEPT !.passes = @ \o st.passes]
  /\ pending' = PendingOf(st.queue, last')
  /\ comps' = Notified(st)
  /\ UNCHANGED <<kind, navigatorOnLine, innerSize, ops, uiVars>>

Next ==
  \/ \E c \in Callbacks : Subscribe(c)
  \/ \E h \in 1..MaxSubs : Unsubscribe(h)
  \/ CallGetSnapshot
  \/ GetCount
  \/ Increment
  \/ Decrement
  \/ Reset
  \/ \E e \in {"online", "offline"} : OnlineEvent(e)
  \/ \E w \in Dims, h \in Dims : ResizeEvent(w, h)
  \/ HandlerRuns

Spec == Init /\ [][Next]_vars

\* ------------------------------------------ the useSyncExternalStore binding
\* Component i is bound to the store by useCounterStore, useOnlineStatus or
\* useWindowSize; the listener it subscribes is callback i.  phase is
\* "unmounted", "rendered" (it has rendered with the snapshot read at mount
\* and its effect has not run) or "subscribed"; shown is the value it
\* displays and obj which object that value is, dirty whether a re-render is
\* scheduled, h its unsubscribe closure, raced whether the store's snapshot
\* changed between its mount read and its subscription.

\* on mount the component renders with getSnapshot()
Mount(i) ==
  /\ comps[i].phase = "unmounted"
  /\ comps' = [comps EXCEPT ![i] = [phase |-> "rendered",
                                    shown |-> getSnapshot, obj |-> sizeObj,
                                    dirty |-> FALSE, h |-> 0,
                                    raced |-> FALSE]]
  /\ UNCHANGED <<storeVars, uiVars>>

\* its effect subscribes and reads a fresh snapshot right after
Effect(i) ==
  /\ comps[i].phase = "rendered"
  /\ CallSubscribe(i)
  /\ comps' = [comps EXCEPT ![i].phase = "subscribed",
                            ![i].h = Len(handles) + 1,
                            ![i].dirty =
                              ~ObjectIs(comps[i], [val |-> getSnapshot,
                                                   obj |-> sizeObj])]
  /\ UNCHANGED uiVars

\* a scheduled re-render reads getSnapshot() again
Rerender(i) ==
  /\ comps[i].phase = "subscribed"
  /\ comps[i].dirty
  /\ comps' = [comps EXCEPT ![i].shown = getSnapshot, ![i].obj = sizeObj,
                            ![i].dirty = FALSE]
  /\ UNCHANGED <<storeVars, uiVars>>

\* on teardown the component calls the unsubscribe closure it was returned
Unmount(i) ==
  /\ comps[i].phase = "subscribed"
  /\ CallUnsubscribe(comps[i].h)
  /\ comps' = [comps EXCEPT ![i] = Unmounted]
  /\ UNCHANGED uiVars

\* a button of a bound component calls increment, decrement or reset
BoundIncrement ==
  LET st == increment(StoreNow(Plain)) IN
  CounterUpdate("increment", st) /\ comps' = Notified(st) /\ UNCHANGED uiVars

BoundDecrement ==
  LET st == decrement(StoreNow(Plain)) IN
  CounterUpdate("decrement", st) /\ comps' = Notified(st) /\ UNCHANGED uiVars

BoundReset ==
  LET st == reset(StoreNow(Plain)) IN
  CounterUpdate("reset", st) /\ comps' = Notified(st) /\ UNCHANGED uiVars

\* the browser fires online, offline or resize while components are bound
BoundOnlineEvent(e) ==
  LET st == dispatchEvent(StoreNow(Plain), e, innerSize) IN
  FireOnline(e, st) /\ comps' = Notified(st) /\ UNCHANGED uiVars

BoundResizeEvent(w, h) ==
  LET st == dispatchEvent(StoreNow(Plain), "resize", <<w, h>>) IN
  FireResize(<<w, h>>, st) /\ comps' = Notified(st) /\ UNCHANGED uiVars

NextBinding ==
  \/ \E i \in Components : Mount(i)
  \/ \E i \in Components : Effect(i)
  \/ \E i \in Components : Rerender(i)
  \/ \E i \in Components : Unmount(i)
  \/ BoundIncrement
  \/ BoundDecrement
  \/ BoundReset
  \/ \E e \in {"online", "offline"} : BoundOnlineEvent(e)
  \/ \E w \in Dims, h \in Dims : BoundResizeEvent(w, h)
  \/ HandlerRuns

SpecBinding == Init /\ [][NextBinding]_vars

\* ------------------------------------------ the debounced search's steps
\* the user edits the search box: setSearchTerm(v) re-renders the component
\* and the effect, whose dependency changed, runs again
ChangeSearchTerm(v) ==
  /\ v # searchTerm
  /\ changes < MaxChanges
  /\ searchTerm' = v
  /\ timers' = runEffect(timers, effectTimer, v)
  /\ effectTimer' = Len(timers) + 1
  /\ idle' = 0
  /\ changes' = changes + 1
  /\ UNCHANGED <<debouncedSearch, lastFire>>
  /\ UNCHANGED notDebounce

\* TickMs pass
Tick ==
  /\ idle < Delay \/ \E id \in PendingTimers(timers) : timers[id].left > 0
  /\ timers' = elapse(timers)
  /\ idle' = IF idle + TickMs < Delay THEN idle + TickMs ELSE Delay
  /\ UNCHANGED <<searchTerm, debouncedSearch, effectTimer, changes, lastFire>>
  /\ UNCHANGED notDebounce

\* the callback of timer id runs: setDebouncedSearch(searchTerm) with the
\* term the effect was run with
FireTimer(id) ==
  /\ id \in PendingTimers(timers)
  /\ timers[id].left = 0
  /\ debouncedSearch' = timers[id].val
  /\ timers' = [timers EXCEPT ![id].status = "fired"]
  /\ lastFire' = [id |-> id, val |-> timers[id].val, term |-> searchTerm,
                  idle |-> idle]
  /\ UNCHANGED <<searchTerm, effectTimer, idle, changes>>
  /\ UNCHANGED notDebounce

NextDebounce ==
  \/ \E v \in Terms : ChangeSearchTerm(v)
  \/ Tick
  \/ \E id \in 1..(MaxChanges + 1) : FireTimer(id)

\* the examples that use no store: the counter store stands by untouched
InitUi == Init /\ kind = "counter"

SpecDebounce == InitUi /\ [][NextDebounce]_vars

\* ------------------------------------------- ErrorBoundaryExample's steps
Click == clicks < MaxClicks /\ clicks' = clicks + 1

UiNow == [bd |-> boundary, log |-> errorLog]

CommitUi(ui) == boundary' = ui.bd /\ errorLog' = ui.log

NetNow ==
  [data |-> netData, loading |-> netLoading, error |-> netError,
   last |-> netLast]

CommitNet(n) ==
  /\ netData' = n.data
  /\ netLoading' = n.loading
  /\ netError' = n.error
  /\ netLast' = n.last

\* "Break/Fix Component 1": setThrowError1(!throwError1) and the re-render
BreakFix1 ==
  /\ Click
  /\ throwError1' = ~throwError1
  /\ CommitUi(renderBuggy(UiNow, "default", ~throwError1))
  /\ UNCHANGED <<throwError2, networkShouldFail, asyncError, asyncInst,
                 bTimers, netData, netLoading, netError, netLast>>
  /\ UNCHANGED notBoundary

\* "Break/Fix Component 2"
BreakFix2 ==
  /\ Click
  /\ throwError2' = ~throwError2
  /\ CommitUi(renderBuggy(UiNow, "custom", ~throwError2))
  /\ UNCHANGED <<throwError1, networkShouldFail, asyncError, asyncInst,
                 bTimers, netData, netLoading, netError, netLast>>
  /\ UNCHANGED notBoundary

\* "Break/Fix Network"
ToggleNetwork ==
  /\ Click
  /\ networkShouldFail' = ~networkShouldFail
  /\ UNCHANGED <<throwError1, throwError2, errorLog, boundary, asyncError,
                 asyncInst, bTimers, netData, netLoading, netError, netLast>>
  /\ UNCHANGED notBoundary

\* "Try Again" in the default error UI of the boundary around BuggyComponent
\* 1: handleReset, then the children render again
TryAgainDefault ==
  /\ boundary["default"].hasError
  /\ Click
  /\ CommitUi(renderBuggy(handleReset(UiNow, "default"), "default",
                          throwError1))
  /\ UNCHANGED <<throwError1, throwError2, networkShouldFail, asyncError,
                 asyncInst, bTimers, netData, netLoading, netError, netLast>>
  /\ UNCHANGED notBoundary

\* "Try Again" in the default error UI of the boundary around
\* AsyncBuggyComponent: the component mounts anew with asyncError false
TryAgainAsync ==
  /\ boundary["async"].hasError
  /\ Click
  /\ CommitUi(handleReset(UiNow, "async"))
  /\ asyncError' = FALSE
  /\ asyncInst' = asyncInst + 1
  /\ UNCHANGED <<throwError1, throwError2, networkShouldFail, bTimers,
                 netData, netLoading, netError, netLast>>
  /\ UNCHANGED notBoundary

\* "Reset Component" in CustomErrorFallback: resetError is
\* () => setThrowError2(false)
ResetCustom ==
  /\ boundary["custom"].hasError
  /\ Click
  /\ throwError2' = FALSE
  /\ UNCHANGED <<throwError1, networkShouldFail, errorLog, boundary,
                 asyncError, asyncInst, bTimers, netData, netLoading,
                 netError, netLast>>
  /\ UNCHANGED notBoundary

\* "Clear" of the error log
ClearErrorLog ==
  /\ errorLog # <<>>
  /\ Click
  /\ errorLog' = <<>>
  /\ UNCHANGED <<throwError1, throwError2, networkShouldFail, boundary,
                 asyncError, asyncInst, bTimers, netData, netLoading,
                 netError, netLast>>
  /\ UNCHANGED notBoundary

\* "Trigger Async Error (1s delay)": triggerAsyncError sets a timer
TriggerAsyncError ==
  /\ ~boundary["async"].hasError
  /\ Click
  /\ bTimers' = setTimeout(bTimers, [what |-> "async", inst |-> asyncInst],
                           AsyncDelay)
  /\ UNCHANGED <<throwError1, throwError2, networkShouldFail, errorLog,
                 boundary, asyncError, asyncInst, netData, netLoading,
                 netError, netLast>>
  /\ UNCHANGED notBoundary

\* a timer of triggerAsyncError fires: setAsyncError(true), which has an
\* effect when the component that set the timer is still mounted; the
\* callback throws nothing and the component renders again later
AsyncTimerFires(id) ==
  /\ id \in PendingTimers(bTimers)
  /\ bTimers[id].left = 0
  /\ bTimers[id].val.what = "async"
  /\ bTimers' = [bTimers EXCEPT ![id].status = "fired"]
  /\ asyncError' = IF /\ bTimers[id].val.inst = asyncInst
                      /\ ~boundary["async"].hasError
                   THEN TRUE
                   ELSE asyncError
  /\ UNCHANGED <<throwError1, throwError2, networkShouldFail, errorLog,
                 boundary, asyncInst, netData, netLoading, netError, netLast,
                 clicks>>
  /\ UNCHANGED notBoundary

\* React renders AsyncBuggyComponent with asyncError true: the render throws,
\* inside the boundary around it
RenderAsync ==
  /\ asyncError
  /\ ~boundary["async"].hasError
  /\ CommitUi(caught(UiNow, "async", AsyncMsg))
  /\ UNCHANGED <<throwError1, throwError2, networkShouldFail, asyncError,
                 asyncInst, bTimers, netData, netLoading, netError, netLast,
                 clicks>>
  /\ UNCHANGED notBoundary

\* "Fetch Data" / "Retry": fetchData runs up to its first await
FetchData ==
  /\ FetchButtonShown
  /\ Click
  /\ CommitNet(fetchData(NetNow, networkShouldFail))
  /\ bTimers' = IF networkShouldFail THEN bTimers
                ELSE setTimeout(bTimers, [what |-> "fetch", inst |-> 0],
                                FetchDelay)
  /\ UNCHANGED <<throwError1, throwError2, networkShouldFail, errorLog,
                 boundary, asyncError, asyncInst>>
  /\ UNCHANGED notBoundary

\* the awaited promise resolves and fetchData runs to its end
FetchResolves(id) ==
  /\ id \in PendingTimers(bTimers)
  /\ bTimers[id].left = 0
  /\ bTimers[id].val.what = "fetch"
  /\ bTimers' = [bTimers EXCEPT ![id].status = "fired"]
  /\ CommitNet(fetchDataResumes(NetNow))
  /\ UNCHANGED <<throwError1, throwError2, networkShouldFail, errorLog,
                 boundary, asyncError, asyncInst, clicks>>
  /\ UNCHANGED notBoundary

\* TickMs pass
TickBoundary ==
  /\ \E id \in PendingTimers(bTimers) : bTimers[id].left > 0
  /\ bTimers' = elapse(bTimers)
  /\ UNCHANGED <<throwError1, throwError2, networkShouldFail, errorLog,
                 boundary, asyncError, asyncInst, netData, netLoading,
                 netError, netLast, clicks>>
  /\ UNCHANGED notBoundary

NextBoundary ==
  \/ BreakFix1
  \/ BreakFix2
  \/ ToggleNetwork
  \/ TryAgainDefault
  \/ TryAgainAsync
  \/ ResetCustom
  \/ ClearErrorLog
  \/ TriggerAsyncError
  \/ \E id \in 1..MaxClicks : AsyncTimerFires(id)
  \/ RenderAsync
  \/ FetchData
  \/ \E id \in 1..MaxClicks : FetchResolves(id)
  \/ TickBoundary

SpecBoundary == InitUi /\ [][NextBoundary]_vars

\* ---------------------------------------------- UseReducerExample's steps
Step == steps < MaxSteps /\ steps' = steps + 1

\* a millisecond passes
AdvanceClock ==
  /\ nowMs < ClockStart + MaxClock
  /\ nowMs' = nowMs + 1
  /\ UNCHANGED <<counterState, todoState, formState, newTodo, editingTodo,
                 editText, rerun, steps>>
  /\ UNCHANGED notReducers

\* counterDispatch(a); the reducer is run once more on the same state and
\* action
DispatchCounter(a) ==
  /\ Step
  /\ counterState' = counterReducer(counterState, a)
  /\ rerun' = [reducer |-> "counter",
               state |-> counterReducer(counterState, a)]
  /\ UNCHANGED <<todoState, formState, newTodo, editingTodo, editText,
                 nowMs>>
  /\ UNCHANGED notReducers

\* todoDispatch(a); the reducer is run once more on the same state and
\* action, later milliseconds after the first run
DispatchTodo(a, later) ==
  /\ Step
  /\ todoState' = todoReducer(todoState, a, nowMs)
  /\ rerun' = [reducer |-> "todo",
               state |-> todoReducer(todoState, a, nowMs + later)]
  /\ UNCHANGED <<counterState, formState, newTodo, editingTodo, editText,
                 nowMs>>
  /\ UNCHANGED notReducers

\* formDispatch(a); the reducer is run once more on the same state and action
DispatchForm(a) ==
  /\ Step
  /\ formState' = formReducer(formState, a)
  /\ rerun' = [reducer |-> "form", state |-> formReducer(formState, a)]
  /\ UNCHANGED <<counterState, todoState, newTodo, editingTodo, editText,
                 nowMs>>
  /\ UNCHANGED notReducers

NextReducers ==
  \/ AdvanceClock
  \/ \E a \in CounterActions : DispatchCounter(a)
  \/ \E a \in TodoActions, later \in 0..1 : DispatchTodo(a, later)
  \/ \E a \in FormActions : DispatchForm(a)

SpecReducers == InitUi /\ [][NextReducers]_vars

\* the todo list of UseReducerExample as the user drives it
TodoDispatch(a) ==
  /\ Step
  /\ todoState' = todoReducer(todoState, a, nowMs)
  /\ UNCHANGED <<counterState, formState, nowMs, rerun>>
  /\ UNCHANGED notReducers

\* typing into the "Add new todo..." input
TypeNewTodo(v) ==
  /\ v # newTodo
  /\ newTodo' = v
  /\ UNCHANGED <<counterState, todoState, formState, editingTodo, editText,
                 nowMs, rerun, steps>>
  /\ UNCHANGED notReducers

\* addTodo: the Add button or Enter
AddTodo ==
  /\ trim(newTodo) # ""
  /\ TodoDispatch([type |-> "ADD_TODO", payload |-> trim(newTodo)])
  /\ newTodo' = ""
  /\ UNCHANGED <<editingTodo, editText>>

\* the checkbox of a rendered todo
ToggleTodo(i) ==
  /\ i \in filteredTodos
  /\ TodoDispatch([type |-> "TOGGLE_TODO", payload |-> todoState.todos[i].id])
  /\ UNCHANGED <<newTodo, editingTodo, editText>>

\* the Delete button of a rendered todo that is not being edited
DeleteTodo(i) ==
  /\ i \in filteredTodos \ EditingRows
  /\ TodoDispatch([type |-> "DELETE_TODO", payload |-> todoState.todos[i].id])
  /\ UNCHANGED <<newTodo, editingTodo, editText>>

\* a filter button
SetFilter(f) ==
  /\ f # todoState.filter
  /\ TodoDispatch([type |-> "SET_FILTER", payload |-> f])
  /\ UNCHANGED <<newTodo, editingTodo, editText>>

\* "Clear Completed"
ClearCompleted ==
  /\ TodoDispatch([type |-> "CLEAR_COMPLETED"])
  /\ UNCHANGED <<newTodo, editingTodo, editText>>

\* startEdit(todo): the Edit button of a rendered todo that is not being
\* edited
StartEdit(i) ==
  /\ i \in filteredTodos \ EditingRows
  /\ editingTodo' = todoState.todos[i].id
  /\ editText' = todoState.todos[i].text
  /\ UNCHANGED <<counterState, todoState, formState, newTodo, nowMs, rerun,
                 steps>>
  /\ UNCHANGED notReducers

\* typing into the edit box
TypeEditText(v) ==
  /\ EditingRows # {}
  /\ v # editText
  /\ editText' = v
  /\ UNCHANGED <<counterState, todoState, formState, newTodo, editingTodo,
                 nowMs, rerun, steps>>
  /\ UNCHANGED notReducers

\* saveEdit: the Save button; it does nothing when the text is blank
SaveEdit ==
  /\ EditingRows # {}
  /\ editingTodo # 0 /\ trim(editText) # ""
  /\ TodoDispatch([type |-> "EDIT_TODO",
                   payload |-> [id |-> editingTodo, text |-> trim(editText)]])
  /\ editingTodo' = 0
  /\ editText' = ""
  /\ UNCHANGED newTodo

\* cancelEdit: the Cancel button
CancelEdit ==
  /\ EditingRows # {}
  /\ editingTodo' = 0
  /\ editText' = ""
  /\ UNCHANGED <<counterState, todoState, formState, newTodo, nowMs, rerun,
                 steps>>
  /\ UNCHANGED notReducers

NextTodo ==
  \/ AdvanceClock
  \/ \E v \in TodoInputs : TypeNewTodo(v)
  \/ AddTodo
  \/ \E i \in 1..(MaxSteps + 2) : ToggleTodo(i)
  \/ \E i \in 1..(MaxSteps + 2) : DeleteTodo(i)
  \/ \E f \in Filters : SetFilter(f)
  \/ ClearCompleted
  \/ \E i \in 1..(MaxSteps + 2) : StartEdit(i)
  \/ \E v \in TodoInputs : TypeEditText(v)
  \/ SaveEdit
  \/ CancelEdit

SpecTodo == InitUi /\ [][NextTodo]_vars

\* --------------------------------------------------------- the form's steps
\* typing into a field; the inputs are rendered until the form is submitted
EditField(f, v) ==
  /\ ~formState.isSubmitted
  /\ v \in FormInputs(f)
  /\ v # formState[f]
  /\ formState' = onChange(formState, f, v)
  /\ UNCHANGED formTimers
  /\ UNCHANGED notForm

\* the form is submitted, by its button, which is disabled while
\* isSubmitting, or by Enter: the browser checks the email input first and
\* fires no submit event when it finds it invalid
SubmitForm ==
  /\ ~formState.isSubmitted
  /\ ~formState.isSubmitting
  /\ ~typeMismatch(formState.email)
  /\ Len(formTimers) < MaxSubmits
  /\ LET r == handleFormSubmit(formState) IN
       /\ formState' = r.state
       /\ formTimers' = IF r.timer
                        THEN setTimeout(formTimers, "submit", SubmitDelay)
                        ELSE formTimers
  /\ UNCHANGED notForm

\* the timer of handleFormSubmit fires: SUBMIT_SUCCESS
SubmitTimerFires(id) ==
  /\ id \in PendingTimers(formTimers)
  /\ formTimers[id].left = 0
  /\ formTimers' = [formTimers EXCEPT ![id].status = "fired"]
  /\ formState' = formReducer(formState, [type |-> "SUBMIT_SUCCESS"])
  /\ UNCHANGED notForm

\* "Submit Another": RESET_FORM
SubmitAnother ==
  /\ formState.isSubmitted
  /\ formState' = formReducer(formState, [type |-> "RESET_FORM"])
  /\ UNCHANGED formTimers
  /\ UNCHANGED notForm

\* TickMs pass
TickForm ==
  /\ \E id \in PendingTimers(formTimers) : formTimers[id].left > 0
  /\ formTimers' = elapse(formTimers)
  /\ UNCHANGED formState
  /\ UNCHANGED notForm

NextForm ==
  \/ \E f \in Fields, v \in FormInputs("name") \cup FormInputs("email") :
       EditField(f, v)
  \/ SubmitForm
  \/ \E id \in 1..MaxSubmits : SubmitTimerFires(id)
  \/ SubmitAnother
  \/ TickForm

SpecForm == InitUi /\ [][NextForm]_vars

\* ------------------------------------------------------ RefsExample's steps
RefsNow == [ref |-> timerRef, ivs |-> intervals]

CommitRefs(r) == timerRef' = r.ref /\ intervals' = r.ivs

\* "Start Timer"
StartTimer ==
  /\ refsMounted
  /\ Len(intervals) < MaxIntervals
  /\ CommitRefs(startTimer(RefsNow))
  /\ UNCHANGED <<refsMounted, refsCount, refsShown>>
  /\ UNCHANGED notRefs

\* "Stop Timer"
StopTimer ==
  /\ refsMounted
  /\ CommitRefs(stopTimer(RefsNow))
  /\ UNCHANGED <<refsMounted, refsCount, refsShown>>
  /\ UNCHANGED notRefs

\* "Increment State": setCount(count + 1), where count is the count of the
\* render the handler belongs to; React renders the update of a click before
\* anything else happens, with the updates that were waiting
IncrementState ==
  /\ refsMounted
  /\ refsShown < MaxCount
  /\ refsCount' = refsShown + 1
  /\ refsShown' = refsShown + 1
  /\ UNCHANGED <<refsMounted, timerRef, intervals>>
  /\ UNCHANGED notRefs

\* React renders RefsExample with the updates the interval's callback made
RenderRefs ==
  /\ refsMounted
  /\ refsShown # refsCount
  /\ refsShown' = refsCount
  /\ UNCHANGED <<refsMounted, timerRef, intervals, refsCount>>
  /\ UNCHANGED notRefs

\* the callback of an active interval that is due runs:
\* setCount((prev) => prev + 1), and the interval starts over
IntervalFires(id) ==
  /\ id \in ActiveIntervals(intervals)
  /\ intervals[id].left = 0
  /\ refsCount < MaxCount
  /\ refsCount' = IF refsMounted THEN refsCount + 1 ELSE refsCount
  /\ intervals' = [intervals EXCEPT ![id].left = IntervalMs]
  /\ UNCHANGED <<refsMounted, timerRef, refsShown>>
  /\ UNCHANGED notRefs

\* TickMs pass
TickRefs ==
  /\ \E id \in ActiveIntervals(intervals) : intervals[id].left > 0
  /\ intervals' =
       [id \in DOMAIN intervals |->
          IF intervals[id].active
          THEN [intervals[id] EXCEPT
                  !.left = IF @ > TickMs THEN @ - TickMs ELSE 0]
          ELSE intervals[id]]
  /\ UNCHANGED <<refsMounted, timerRef, refsCount, refsShown>>
  /\ UNCHANGED notRefs

\* RefsExample unmounts: the effect's cleanup runs
UnmountRefs ==
  /\ refsMounted
  /\ refsMounted' = FALSE
  /\ CommitRefs(cleanupTimer(RefsNow))
  /\ UNCHANGED <<refsCount, refsShown>>
  /\ UNCHANGED notRefs

\* RefsExample mounts again, with a new timerRef and a new count
MountRefs ==
  /\ ~refsMounted
  /\ refsMounted' = TRUE
  /\ timerRef' = 0
  /\ refsCount' = 0
  /\ refsShown' = 0
  /\ UNCHANGED intervals
  /\ UNCHANGED notRefs

NextRefs ==
  \/ StartTimer
  \/ StopTimer
  \/ IncrementState
  \/ RenderRefs
  \/ \E id \in 1..MaxIntervals : IntervalFires(id)
  \/ TickRefs
  \/ UnmountRefs
  \/ MountRefs

SpecRefs == InitUi /\ [][NextRefs]_vars

TypeOK ==
  /\ kind \in StoreKinds
  /\ Len(handles) <= MaxSubs
  /\ Len(ops) <= MaxOps

\* ----------------------------------------------------------------- claims
\* occurrences of c in the traces of the last operation's passes
Calls(c) ==
  Cardinality(UNION {{<<p, i>> : i \in {j \in DOMAIN last.passes[p].trace :
                                          last.passes[p].trace[j] = c}} :
                     p \in DOMAIN last.passes})

\* the last operation returned, no listener threw, and the listener Set is
\* the one the operation started with
ReturnedStable ==
  /\ ~last.threw
  /\ \A p \in DOMAIN last.passes : ~last.passes[p].threw
  /\ listeners = last.before

CounterUpdated == kind = "counter" /\ last.op \in UpdateNames

ApplyOp(op, v) ==
  CASE op = "increment" -> v + 1
    [] op = "decrement" -> v - 1
    [] OTHER -> 0

RECURSIVE FoldOps(_)
FoldOps(s) ==
  IF s = <<>> THEN 0
  ELSE ApplyOp(s[Len(s)], FoldOps(SubSeq(s, 1, Len(s) - 1)))

\* C1: the counter store's getSnapshot() is the fold of the increment,
\* decrement and reset calls made so far, in call order, over the initial 0
\* (0 when there was no call), whatever the listeners did.
C1_SnapshotIsFold == kind = "counter" => getSnapshot = FoldOps(ops)

C1_Witness ==
  /\ kind = "counter"
  /\ Len(ops) >= 2
  /\ ops[1] # "reset" /\ ops[2] = "reset"
  /\ getSnapshot = 0

\* C2: with N >= 0 distinct listeners subscribed, one increment, decrement or
\* reset of the counter store that returns with the listener Set it started
\* with has run one pass that invoked each subscribed listener exactly once
\* and no other, and has changed the value as the operation says.
C2_EachListenerOnce ==
  (CounterUpdated /\ ReturnedStable) =>
     /\ Len(last.passes) = 1
     /\ \A c \in Callbacks :
          Calls(c) = IF c \in Range(last.before) THEN 1 ELSE 0
     /\ getSnapshot = ApplyOp(last.op, last.prev)

C2_Witness ==
  /\ CounterUpdated /\ ReturnedStable
  /\ Len(last.before) >= 2
  /\ \A c \in Range(last.before) : Calls(c) = 1

\* callback c had been subscribed and every closure returned for it had been
\* called when the last operation started, and the operation did not
\* subscribe it again
NoLiveHandle(c) ==
  /\ \E h \in DOMAIN last.hs : last.hs[h].cb = c
  /\ \A h \in DOMAIN handles :
       handles[h].cb = c => (h \in DOMAIN last.hs /\ last.hs[h].called)

\* callback c had been subscribed and none of the closures returned for it
\* had been called when the last operation started
AllHandlesLive(c) ==
  /\ \E h \in DOMAIN last.hs : last.hs[h].cb = c
  /\ \A h \in DOMAIN last.hs : last.hs[h].cb = c => ~last.hs[h].called

\* C3: a listener whose unsubscribe closures had all been called before an
\* increment, decrement or reset is not invoked by it (nor by a later one,
\* the closures staying called), while a listener none of whose closures was
\* called is invoked when the operation returns with the listener Set it
\* started with.
C3_UnsubscribedNotInvoked ==
  CounterUpdated =>
    \A c \in Callbacks :
      /\ NoLiveHandle(c) => Calls(c) = 0
      /\ (ReturnedStable /\ AllHandlesLive(c)) => Calls(c) >= 1

C3_Witness ==
  /\ CounterUpdated /\ ReturnedStable
  /\ \E c, d \in Callbacks :
       /\ NoLiveHandle(c) /\ Calls(c) = 0
       /\ AllHandlesLive(d) /\ Calls(d) = 1

Updated == last.op \in UpdateNames \cup EventNames

Occ(t, c) == Cardinality({i \in DOMAIN t : t[i] = c})

\* C4: a listener A that, while invoked in a pass, calls the unsubscribe
\* closure of another listener B that was registered when the pass started
\* and has not been invoked yet leaves B to be invoked in that pass; and a
\* listener without a live closure is not invoked by a later pass.
C4_UnsubscribeDuringPassDeferred ==
  Updated =>
    /\ \A p \in DOMAIN last.passes :
         LET ps == last.passes[p] IN
         \A i \in DOMAIN ps.trace :
           LET a == ps.trace[i]
               b == last.beh[a]
           IN (b.t = "unsub" /\ b.arg \in DOMAIN last.hs /\ ~ps.threw) =>
                LET v == last.hs[b.arg].cb IN
                (/\ v # a
                 /\ v \in Range(ps.start)
                 /\ v \notin {ps.trace[j] : j \in 1..(i - 1)})
                  => v \in {ps.trace[j] : j \in (i + 1)..Len(ps.trace)}
    /\ \A c \in Callbacks : NoLiveHandle(c) => Calls(c) = 0

\* C5: the listeners invoked in a pass are among those registered when the
\* pass started: one subscribed by a listener during the pass is not invoked
\* in that pass.
C5_SubscribedDuringPassNotInvoked ==
  Updated =>
    \A p \in DOMAIN last.passes :
      Range(last.passes[p].trace) \subseteq Range(last.passes[p].start)

\* C6: in a pass in which a listener throws, every other listener registered
\* when the pass started, before or after the thrower in the Set, is invoked
\* exactly once.
C6_ThrowingListenerIsolated ==
  Updated =>
    \A p \in DOMAIN last.passes :
      LET ps == last.passes[p] IN
      ps.threw =>
        \A c \in Range(ps.start) \ {ps.trace[Len(ps.trace)]} :
          Occ(ps.trace, c) = 1

\* C7: calling an unsubscribe closure that has been called before is a no-op:
\* it does not raise, invokes nothing, and leaves the listener Set (the entry
\* of every listener, one subscribed again since the first call included),
\* the window's handler lists and the value exactly as they were before the
\* call (counter, online and window-size store).
C7_RepeatedUnsubscribe ==
  (last.op = "unsubscribe" /\ last.repeat) =>
     /\ ~last.threw
     /\ last.passes = <<>>
     /\ listeners = last.before
     /\ winHandlers = last.wh
     /\ getSnapshot = last.prev

\* closures returned for callback c that had not been called when the last
\* operation started
LiveHandles(c) ==
  {h \in DOMAIN last.hs : last.hs[h].cb = c /\ ~last.hs[h].called}

\* C8: subscribing the same callback twice makes two independent entries: an
\* update of the counter store invokes a callback once per closure returned
\* for it and not yet called.
C8_IndependentEntries ==
  (CounterUpdated /\ last.beh = Plain) =>
     \A c \in Callbacks : Calls(c) = Cardinality(LiveHandles(c))

\* the last operation assigned the value the store already held
SameValueUpdate ==
  \/ kind = "counter" /\ last.op = "reset" /\ last.prev = 0
  \/ kind = "online" /\ last.op = "online" /\ last.prev = TRUE
  \/ kind = "online" /\ last.op = "offline" /\ last.prev = FALSE
  \/ kind = "window" /\ last.op = "resize" /\ last.prev = innerSize

\* C9: an update that assigns the value the store already holds (reset() at
\* 0, an online event while online) still invokes every registered listener
\* when it returns with the listener Set it started with, and getSnapshot()
\* returns that same value.
C9_NoEqualityShortCircuit ==
  SameValueUpdate =>
     /\ getSnapshot = last.prev
     /\ ReturnedStable => \A c \in Range(last.before) : Calls(c) >= 1

C9_Witness ==
  /\ SameValueUpdate /\ ReturnedStable
  /\ kind = "counter"
  /\ Len(last.before) >= 2
  /\ \A c \in Range(last.before) : Calls(c) = 1

\* C10: a bound component misses no update: whenever it is subscribed and
\* has no re-render scheduled, the value it shows is getSnapshot(), also when
\* the value changed between its mount read and its subscription.
C10_NoMissedUpdate ==
  \A i \in Components :
    (comps[i].phase = "subscribed" /\ ~comps[i].dirty) =>
       comps[i].shown = getSnapshot

C10_Witness ==
  \E i \in Components :
    /\ comps[i].phase = "subscribed" /\ ~comps[i].dirty
    /\ comps[i].raced
    /\ comps[i].shown = getSnapshot

\* C11: the counter store's value is changed only by increment, decrement and
\* reset: after subscribe, after a call of any unsubscribe closure (a repeated
\* call included), after getSnapshot() and after a read of count the value is
\* the one from before the call, and after getSnapshot() and a read of count
\* the listener Set, the closures and the window's handlers are as before too.
C11_OnlyUpdatesChangeValue ==
  kind = "counter" =>
    /\ (getSnapshot # last.prev => last.op \in UpdateNames)
    /\ (last.op \in {"subscribe", "unsubscribe", "getSnapshot", "count"} =>
          getSnapshot = last.prev)
    /\ (last.op \in {"getSnapshot", "count"} =>
          /\ listeners = last.before
          /\ handles = last.hs
          /\ winHandlers = last.wh)

C11_Witness ==
  /\ kind = "counter"
  /\ last.op = "getSnapshot"
  /\ count # 0
  /\ listeners # <<>>

\* C12: counterStore is one store shared by every component bound with
\* useCounterStore: once an increment, decrement or reset has completed and
\* every component has run its pending effect and its scheduled re-render,
\* all mounted components show the same count, the one getSnapshot() returns.
Settled ==
  \A i \in Components : comps[i].phase # "rendered" /\ ~comps[i].dirty

C12_ConsumersAgree ==
  (kind = "counter" /\ ops # <<>> /\ Settled) =>
    \A i, j \in Components :
      (comps[i].phase = "subscribed" /\ comps[j].phase = "subscribed") =>
        /\ comps[i].shown = comps[j].shown
        /\ comps[i].shown = count

C12_Witness ==
  /\ kind = "counter"
  /\ Settled
  /\ last.op \in UpdateNames
  /\ count # 0
  /\ \A i \in Components :
       comps[i].phase = "subscribed" /\ comps[i].shown = count

\* C13: debouncedSearch is assigned only by a timer that ran 500 ms or more
\* after the last change of searchTerm and it is assigned the current
\* searchTerm; every change clears the pending timer, so at most one timer is
\* pending at any time, the pending timer carries the current term, and a
\* term that was overwritten within 500 ms is not published.
C13_DebouncedAfterQuiet ==
  /\ Cardinality(PendingTimers(timers)) <= 1
  /\ \A id \in PendingTimers(timers) : timers[id].val = searchTerm
  /\ \A id \in DOMAIN timers :
       timers[id].status = "fired" => timers[id].left = 0
  /\ lastFire.id # 0 =>
       /\ lastFire.val = lastFire.term
       /\ lastFire.idle >= Delay
  /\ debouncedSearch = lastFire.val

C13_Witness ==
  /\ lastFire.id # 0
  /\ debouncedSearch = "ab"
  /\ \E id \in DOMAIN timers :
       timers[id].status = "cleared" /\ timers[id].val = "a"

\* C14: the error of AsyncBuggyComponent is not caught by the ErrorBoundary
\* around it: after "Trigger Async Error", the firing of its timer and the
\* render that follows, that boundary's hasError is still false and
\* handleError has logged no entry for the error.
C14_AsyncErrorNotCaught ==
  /\ ~boundary["async"].hasError
  /\ \A i \in DOMAIN errorLog : errorLog[i] # AsyncMsg

\* C19: NetworkErrorComponent handles a failed request without throwing:
\* once the most recent fetchData call has completed, by failing or by
\* loading the data, loading is false; after a failed call error holds the
\* failure message; the failure reaches no ErrorBoundary and no log entry.
C19_NetworkFailureHandled ==
  /\ netLast \in {"failed", "resolved"} => ~netLoading
  /\ netLast = "failed" => netError = NetMsg
  /\ netLast = "resolved" => (netData = Loaded /\ netError = "null")
  /\ \A b \in Boundaries : boundary[b].error # NetMsg
  /\ \A i \in DOMAIN errorLog : errorLog[i] # NetMsg

C19_Witness ==
  /\ netLast = "failed"
  /\ netError = NetMsg
  /\ ~netLoading
  /\ ~networkShouldFail
  /\ \A b \in Boundaries : ~boundary[b].hasError

\* C15: every update operation replaces the value before it invokes a
\* listener: in every forEach pass of increment, decrement, reset and of the
\* online, offline and resize handlers, getSnapshot() called from inside a
\* listener returns the new value.
NewValue ==
  CASE last.op \in UpdateNames -> ApplyOp(last.op, last.prev)
    [] last.op = "online" -> TRUE
    [] last.op = "offline" -> FALSE
    [] OTHER -> innerSize

C15_ValueReplacedBeforeNotify ==
  last.op \in UpdateNames \cup EventNames =>
    \A p \in DOMAIN last.passes :
      \A k \in DOMAIN last.passes[p].seen :
        last.passes[p].seen[k] = NewValue

C15_Witness ==
  /\ last.op \in {"decrement", "resize"}
  /\ getSnapshot # last.prev
  /\ \E p \in DOMAIN last.passes : Len(last.passes[p].seen) >= 2

\* C16: with k >= 1 handlers of the online or window-size store registered on
\* window, one online, offline or resize event invokes every listener that is
\* registered when the event fires exactly once, whatever k is (listeners
\* that just return).
C16_EventInvokesEachOnce ==
  (/\ kind \in {"online", "window"}
   /\ last.op \in EventNames
   /\ last.beh = Plain
   /\ Len(last.wh[last.op]) >= 1) =>
    \A c \in Range(last.before) : Calls(c) = 1

\* C20: the online and the window-size store have, for each event type they
\* listen to, as many handlers registered on window as there are unsubscribe
\* closures that have not been called, and none once every closure has been
\* called; they register no handler for other event types.
Uncalled == {h \in DOMAIN handles : ~handles[h].called}

C20_HandlersMatchSubscriptions ==
  kind \in {"online", "window"} =>
    \A e \in AllEventTypes :
      /\ e \in EventTypes(kind) =>
           /\ Len(winHandlers[e]) = Cardinality(Uncalled)
           /\ Range(winHandlers[e]) = Uncalled
      /\ e \notin EventTypes(kind) => winHandlers[e] = <<>>

C20_Witness ==
  /\ kind = "online"
  /\ last.op = "unsubscribe"
  /\ last.repeat
  /\ Len(handles) = MaxSubs
  /\ handles[1].cb = handles[2].cb
  /\ Cardinality(Uncalled) = 1
  /\ Len(winHandlers["offline"]) = 1

\* C17: the ids of the todos are unique: after any sequence of add, toggle,
\* delete, edit and clear-completed, two adds within one millisecond
\* included, no two todos of the list have the same id.
C17_TodoIdsUnique ==
  \A i, j \in DOMAIN todoState.todos :
    i # j => todoState.todos[i].id # todoState.todos[j].id

\* C18: counterReducer, todoReducer and formReducer are functions of (state,
\* action): the same action applied to the same state in a second run gives
\* the state the first run gave, for every action type.
C18_ReducersDeterministic ==
  /\ rerun.reducer = "counter" => rerun.state = counterState
  /\ rerun.reducer = "todo" => rerun.state = todoState
  /\ rerun.reducer = "form" => rerun.state = formState

\* C21: onlineStore.getSnapshot() is the status of the most recent online or
\* offline event of the browser, or the status read when the store was
\* created if there has been no event, whatever subscribe and unsubscribe
\* calls came between, events fired while nothing is subscribed included.
C21_SnapshotIsLatestStatus ==
  kind = "online" => getSnapshot = navigatorOnLine

\* C22: editingTodo is null or the id of a todo that is in todoState.todos,
\* after any sequence of startEdit, saveEdit, cancelEdit and dispatched todo
\* actions.
C22_EditingTodoExists ==
  \/ editingTodo = 0
  \/ \E i \in DOMAIN todoState.todos : todoState.todos[i].id = editingTodo

\* C23: whenever the form's isSubmitted is true its fields pass validateForm
\* (name and message not blank, email not blank and matching the pattern),
\* however edits of the fields interleave with the pending submit timer.
FormValid ==
  /\ trim(formState.name) # ""
  /\ trim(formState.email) # "" /\ emailPattern(formState.email)
  /\ trim(formState.message) # ""

C23_SubmittedIsValid == formState.isSubmitted => FormValid

\* C24: once the ErrorBoundary with the custom fallback has caught an error
\* of BuggyComponent, a click on the fallback's "Reset Component" button
\* brings the boundary back to hasError = false, so that it renders
\* BuggyComponent again.
C24_ResetComponentRecovers ==
  [][ResetCustom => ~boundary'["custom"].hasError]_vars

\* C25: in RefsExample at most one interval is active after any sequence of
\* Start Timer clicks, Stop Timer clicks and unmounts; while the component is
\* mounted an interval is active exactly when timerRef.current is not null,
\* and it is the interval timerRef.current names; none is active after Stop
\* Timer or after the unmount.
C25_OneIntervalTrackedByRef ==
  /\ Cardinality(ActiveIntervals(intervals)) <= 1
  /\ refsMounted =>
       /\ (ActiveIntervals(intervals) # {}) <=> (timerRef # 0)
       /\ timerRef # 0 => ActiveIntervals(intervals) = {timerRef}
  /\ ~refsMounted => ActiveIntervals(intervals) = {}

C25_Witness ==
  /\ refsMounted
  /\ timerRef = MaxIntervals
  /\ ActiveIntervals(intervals) = {timerRef}
  /\ refsCount > 0

====
